---- MODULE Spec2Model ----
(***************************************************************************)
(* Nut sort: the state and move primitives, the depth-first backtracking   *)
(* engine (algorithms/backtracking/core.py) and the best-first             *)
(* branch-and-bound engine (algorithms/branch_and_bound/core.py).          *)
(*                                                                         *)
(* A pile is a sequence of colors, bottom first; a state is a sequence of  *)
(* piles.  Stack indices in moves are the source's 0-based indices, so     *)
(* stack i of state s is s[i + 1] here.                                    *)
(***************************************************************************)
EXTENDS Integers, Sequences, FiniteSets, TLC

MAX_CAP == 5

\* Budgets tried: 0 stands for "no budget" (None, falsy like 0), 1..MaxBudget.
MaxBudget == 3
\* Largest deviation of a color's total from MAX_CAP in a dealt start state.
MaxImbalance == 1
\* Indices handed to aplicar_movimiento range over -MaxIndex..MaxIndex.
MaxIndex == 3

\* Units scattered over the stacks of a sparse start state: at most MaxUnits.
MaxUnits == 2

Colors == {"R", "G", "B"}
TwoColors == {"R", "G"}
None == "None"

\* Optional values that are not colors: NoneV is None, Some(x) is x.
NoneV == << >>
Some(x) == <<x>>

Max2(a, b) == IF a >= b THEN a ELSE b

\* the value of v, computed once, handed to Op
Con(v, Op(_)) == CHOOSE r \in {Op(x) : x \in {v}} : TRUE

(***************************************************************************)
(* Primitives of algorithms/backtracking/core.py                           *)
(***************************************************************************)
top(p) == IF Len(p) > 0 THEN p[Len(p)] ELSE None

free_slots(p) == MAX_CAP - Len(p)

RECURSIVE RunDown(_, _, _)
\* the loop of run_len_superior: walk down from position pos while the color is c
RunDown(p, pos, c) ==
    IF pos = 0 THEN 0
    ELSE IF p[pos] = c THEN 1 + RunDown(p, pos - 1, c) ELSE 0

run_len_superior(p) == IF Len(p) = 0 THEN 0 ELSE RunDown(p, Len(p), p[Len(p)])

\* all(x == p[0] for x in p)
AllEqFirst(p) == \A k \in 1..Len(p) : p[k] = p[1]

pila_es_monocolor(p) == IF Len(p) <= 1 THEN TRUE ELSE AllEqFirst(p)

pila_terminada(p) == IF Len(p) = MAX_CAP THEN AllEqFirst(p) ELSE FALSE

\* is_goal accepting any monochrome stack, full or not
is_goal_monocolor(s) == \A k \in 1..Len(s) : pila_es_monocolor(s[k])

\* is_goal accepting any full stack, mixed or not
is_goal_lleno(s) == \A k \in 1..Len(s) : Len(s[k]) = 0 \/ Len(s[k]) = MAX_CAP

is_goal(s) ==
    \A k \in 1..Len(s) :
        \/ Len(s[k]) = 0
        \/ Len(s[k]) = MAX_CAP /\ AllEqFirst(s[k])

\* puede_mover refusing an empty destination
puede_mover_sin_vacias(p_src, p_dst) ==
    IF Len(p_src) = 0 THEN FALSE
    ELSE IF Len(p_dst) >= MAX_CAP THEN FALSE
    ELSE Len(p_dst) > 0 /\ top(p_src) = top(p_dst)

puede_mover(p_src, p_dst) ==
    IF Len(p_src) = 0 THEN FALSE
    ELSE IF Len(p_dst) >= MAX_CAP THEN FALSE
    ELSE Len(p_dst) = 0 \/ top(p_src) = top(p_dst)

\* Python tuple indexing: s[i] is defined for -len(s) <= i < len(s)
PyInRange(s, i) == i >= 0 - Len(s) /\ i < Len(s)
PyIdx(s, i) == IF i >= 0 THEN i + 1 ELSE Len(s) + i + 1

Ok(st) == [ok |-> TRUE, st |-> st, err |-> ""]
Raise(e) == [ok |-> FALSE, st |-> << >>, err |-> e]

\* The new tuple `nuevo`: nuevo[i] is written first, nuevo[j] second.
Nuevo(s, i, j, src, dst) == [[s EXCEPT ![i + 1] = src] EXCEPT ![j + 1] = dst]

\* aplicar_movimiento without its explicit index check
aplicar_movimiento_sin_rango(s, i, j) ==
    IF ~PyInRange(s, i) \/ ~PyInRange(s, j) THEN Raise("IndexError")
    ELSE IF ~puede_mover(s[PyIdx(s, i)], s[PyIdx(s, j)]) THEN Raise("ValueError")
    ELSE LET src0 == s[PyIdx(s, i)]
             dst0 == s[PyIdx(s, j)]
         IN Ok(Nuevo(s, PyIdx(s, i) - 1, PyIdx(s, j) - 1,
                     SubSeq(src0, 1, Len(src0) - 1), Append(dst0, src0[Len(src0)])))

aplicar_movimiento(s, i, j) ==
    IF ~PyInRange(s, i) \/ ~PyInRange(s, j) THEN Raise("IndexError")
    ELSE IF ~puede_mover(s[PyIdx(s, i)], s[PyIdx(s, j)]) THEN Raise("ValueError")
    ELSE IF i < 0 \/ i >= Len(s) \/ j < 0 \/ j >= Len(s) THEN Raise("IndexError")
    ELSE LET src0 == s[i + 1]
             dst0 == s[j + 1]
             color_origen == top(src0)
             color_destino_tope == top(dst0)
             src == SubSeq(src0, 1, Len(src0) - 1)
             dst == Append(dst0, src0[Len(src0)])
         IN IF color_destino_tope # None /\ color_origen # color_destino_tope
              THEN Raise("ValueError")
            ELSE IF Len(dst) > 1 /\ dst[Len(dst)] # dst[Len(dst) - 1]
              THEN Raise("ValueError")
            ELSE IF Len(dst) > MAX_CAP THEN Raise("ValueError")
            ELSE Ok(Nuevo(s, i, j, src, dst))

(***************************************************************************)
(* H1: focus color                                                         *)
(***************************************************************************)
RECURSIVE TopsInOrder(_, _)
\* keys of the Counter of freq_topes, in insertion (first seen) order
TopsInOrder(s, k) ==
    IF k = 0 THEN << >>
    ELSE Con(TopsInOrder(s, k - 1), LAMBDA prev :
             IF Len(s[k]) = 0 \/ (\E m \in 1..Len(prev) : prev[m] = top(s[k]))
               THEN prev
               ELSE Append(prev, top(s[k])))

freq_topes(s, c) == Cardinality({k \in 1..Len(s) : Len(s[k]) > 0 /\ top(s[k]) = c})

RECURSIVE MaxRunUpTo(_, _, _)
MaxRunUpTo(s, k, c) ==
    IF k = 0 THEN 0
    ELSE IF Len(s[k]) > 0 /\ top(s[k]) = c
           THEN Con(MaxRunUpTo(s, k - 1, c), LAMBDA m : Max2(m, run_len_superior(s[k])))
           ELSE MaxRunUpTo(s, k - 1, c)

max_run_por_color(s, c) == MaxRunUpTo(s, Len(s), c)

\* the key of max() reduced to the frequency
FocoKeyLess_solo_frecuencia(s, a, b) == freq_topes(s, a) < freq_topes(s, b)

\* key of max() in elegir_color_foco, compared as a pair
FocoKeyLess(s, a, b) ==
    \/ freq_topes(s, a) < freq_topes(s, b)
    \/ freq_topes(s, a) = freq_topes(s, b)
         /\ max_run_por_color(s, a) < max_run_por_color(s, b)

\* max() keeps the first key that no later key strictly exceeds
elegir_color_foco(s) ==
    Con(TopsInOrder(s, Len(s)), LAMBDA keys :
        IF Len(keys) = 0 THEN None
        ELSE keys[CHOOSE m \in 1..Len(keys) :
                    /\ \A n \in 1..Len(keys) : ~FocoKeyLess(s, keys[m], keys[n])
                    /\ \A n \in 1..(m - 1) : FocoKeyLess(s, keys[n], keys[m])])

(***************************************************************************)
(* H2: move priority                                                       *)
(***************************************************************************)
\* priority_tuple without the preference for the last stack
priority_tuple_sin_buffer(s, i, j) ==
    LET p_src == s[i + 1]
        p_dst == s[j + 1]
        c == top(p_src)
        same_color == Len(p_dst) > 0 /\ top(p_dst) = c
        run_after == run_len_superior(Append(p_dst, c))
        run_before == run_len_superior(p_src)
        dest_empty == Len(p_dst) = 0
        dest_free == free_slots(p_dst)
        break_pure == Len(p_src) > 1 /\ AllEqFirst(p_src)
        espacios_despues == IF ~dest_empty THEN dest_free - 1 ELSE MAX_CAP - 1
        es_buffer == j = Len(s) - 1
        preferir_buffer == 1
    IN IF c = None THEN <<999, 0, 0, 0, 0, 0>>
       ELSE << IF same_color THEN 0 ELSE 1,
               preferir_buffer,
               0 - run_after,
               0 - run_before,
               IF ~dest_empty THEN 0 ELSE 1,
               0 - espacios_despues,
               IF break_pure THEN 1 ELSE 0 >>

priority_tuple(s, i, j) ==
    LET p_src == s[i + 1]
        p_dst == s[j + 1]
        c == top(p_src)
        same_color == Len(p_dst) > 0 /\ top(p_dst) = c
        run_after == run_len_superior(Append(p_dst, c))
        run_before == run_len_superior(p_src)
        dest_empty == Len(p_dst) = 0
        dest_free == free_slots(p_dst)
        break_pure == Len(p_src) > 1 /\ AllEqFirst(p_src)
        espacios_despues == IF ~dest_empty THEN dest_free - 1 ELSE MAX_CAP - 1
        es_buffer == j = Len(s) - 1
        preferir_buffer == IF same_color /\ es_buffer THEN 0 ELSE 1
    IN IF c = None THEN <<999, 0, 0, 0, 0, 0>>
       ELSE << IF same_color THEN 0 ELSE 1,
               preferir_buffer,
               0 - run_after,
               0 - run_before,
               IF ~dest_empty THEN 0 ELSE 1,
               0 - espacios_despues,
               IF break_pure THEN 1 ELSE 0 >>

RECURSIVE TupleLess(_, _)
\* Python's < on tuples of integers
TupleLess(a, b) ==
    IF Len(b) = 0 THEN FALSE
    ELSE IF Len(a) = 0 THEN TRUE
    ELSE IF a[1] # b[1] THEN a[1] < b[1]
    ELSE TupleLess(Tail(a), Tail(b))

\* the list left as the loops built it
SortByPriority_sin_orden(s, lista) == lista

\* list.sort(key=priority_tuple), a stable sort: the move at place k has k - 1
\* moves before it, by key first and by place in the unsorted list second
SortByPriority(s, lista) ==
    Con(lista, LAMBDA mvs :
      Con(<< >> \o [m \in 1..Len(mvs) |-> priority_tuple(s, mvs[m][1], mvs[m][2])],
          LAMBDA keys :
            LET Antes(a, b) == \/ TupleLess(keys[a], keys[b])
                               \/ ~TupleLess(keys[b], keys[a]) /\ a < b
                lugar(m) == 1 + Cardinality({a \in 1..Len(mvs) : Antes(a, m)})
            IN << >> \o [k \in 1..Len(mvs) |->
                            mvs[CHOOSE m \in 1..Len(mvs) : lugar(m) = k]]))

\* every (i, j) in the order of the two nested range(N) loops
AllPairs(N) == [k \in 1..(N * N) |-> <<(k - 1) \div N, (k - 1) % N>>]

\* the nested loops without the test that skips a finished source
LegalPair_sin_terminadas(s, mv) ==
    /\ mv[1] # mv[2]
    /\ puede_mover(s[mv[1] + 1], s[mv[2] + 1])

LegalPair(s, mv) ==
    /\ ~pila_terminada(s[mv[1] + 1])
    /\ mv[1] # mv[2]
    /\ ~pila_terminada(s[mv[2] + 1])
    /\ puede_mover(s[mv[1] + 1], s[mv[2] + 1])

generar_movimientos_ordenados(s) ==
    Con(elegir_color_foco(s), LAMBDA foco :
        LET legal == SelectSeq(AllPairs(Len(s)), LAMBDA mv : LegalPair(s, mv))
            EsFoco(mv) == foco # None /\ Len(s[mv[1] + 1]) > 0 /\ top(s[mv[1] + 1]) = foco
            grupo_foco == SelectSeq(legal, EsFoco)
            grupo_otros == SelectSeq(legal, LAMBDA mv : ~EsFoco(mv))
        IN SortByPriority(s, grupo_foco) \o SortByPriority(s, grupo_otros))

(***************************************************************************)
(* Primitives of algorithms/branch_and_bound/core.py (its own copies)      *)
(***************************************************************************)
bb_top(p) == IF Len(p) > 0 THEN p[Len(p)] ELSE None

bb_free_slots(p) == MAX_CAP - Len(p)

bb_pila_es_monocolor(p) == IF Len(p) <= 1 THEN TRUE ELSE AllEqFirst(p)

bb_pila_terminada(p) == IF Len(p) = MAX_CAP THEN AllEqFirst(p) ELSE FALSE

\* is_goal accepting any full stack, mixed or not
bb_is_goal_lleno(s) == \A k \in 1..Len(s) : Len(s[k]) = 0 \/ Len(s[k]) = MAX_CAP

bb_is_goal(s) ==
    \A k \in 1..Len(s) :
        \/ Len(s[k]) = 0
        \/ Len(s[k]) = MAX_CAP /\ AllEqFirst(s[k])

\* puede_mover with the capacity test off by one
bb_puede_mover_lleno(p_src, p_dst) ==
    IF Len(p_src) = 0 THEN FALSE
    ELSE IF Len(p_dst) > MAX_CAP THEN FALSE
    ELSE Len(p_dst) = 0 \/ bb_top(p_src) = bb_top(p_dst)

bb_puede_mover(p_src, p_dst) ==
    IF Len(p_src) = 0 THEN FALSE
    ELSE IF Len(p_dst) >= MAX_CAP THEN FALSE
    ELSE Len(p_dst) = 0 \/ bb_top(p_src) = bb_top(p_dst)

bb_aplicar_movimiento(s, i, j) ==
    IF ~PyInRange(s, i) \/ ~PyInRange(s, j) THEN Raise("IndexError")
    ELSE IF ~bb_puede_mover(s[PyIdx(s, i)], s[PyIdx(s, j)]) THEN Raise("ValueError")
    ELSE IF i < 0 \/ i >= Len(s) \/ j < 0 \/ j >= Len(s) THEN Raise("IndexError")
    ELSE LET src0 == s[i + 1]
             dst0 == s[j + 1]
             src == SubSeq(src0, 1, Len(src0) - 1)
             dst == Append(dst0, src0[Len(src0)])
         IN Ok(Nuevo(s, i, j, src, dst))

(***************************************************************************)
(* Destination assignment                                                  *)
(***************************************************************************)
obtener_color_base(p) == IF Len(p) > 0 THEN p[1] ELSE None

RECURSIVE RachaLoop(_, _, _, _, _)
\* the loop of calcular_racha_mas_larga from position k on
RachaLoop(p, color, k, racha_actual, max_racha) ==
    IF k > Len(p) THEN max_racha
    ELSE IF p[k] = color
           THEN RachaLoop(p, color, k + 1, racha_actual + 1, Max2(max_racha, racha_actual + 1))
           ELSE RachaLoop(p, color, k + 1, 0, max_racha)

calcular_racha_mas_larga(p, color) == IF Len(p) = 0 THEN 0 ELSE RachaLoop(p, color, 1, 0, 0)

contar_otros_colores(p, color) == Cardinality({k \in 1..Len(p) : p[k] # color})

contar_color_total(p, color) == Cardinality({k \in 1..Len(p) : p[k] = color})

\* the score without the run term
Puntaje_sin_racha(pila, color) ==
    contar_color_total(pila, color) * 3 - contar_otros_colores(pila, color)

Puntaje(pila, color) ==
    contar_color_total(pila, color) * 3 + calcular_racha_mas_larga(pila, color) * 2
        - contar_otros_colores(pila, color)

\* stack idx (0-based) is the first of those with its base color that no other beats
EsMejorPerno(estado, idx) ==
    LET color == obtener_color_base(estado[idx + 1])
        indices_pernos == {k \in 0..(Len(estado) - 1) :
                              obtener_color_base(estado[k + 1]) = color}
    IN /\ color # None
       /\ \A k \in indices_pernos :
              /\ Puntaje(estado[k + 1], color) <= Puntaje(estado[idx + 1], color)
              /\ k < idx => Puntaje(estado[k + 1], color) < Puntaje(estado[idx + 1], color)

\* the dictionary {indice_perno: color_destino}
asignar_colores_destino(estado) ==
    [idx \in {k \in 0..(Len(estado) - 1) : EsMejorPerno(estado, k)} |->
        obtener_color_base(estado[idx + 1])]

(***************************************************************************)
(* Lower bound and infeasibility                                           *)
(***************************************************************************)
RECURSIVE SumOver(_, _)
SumOver(S, f) ==
    IF S = {} THEN 0
    ELSE LET x == CHOOSE y \in S : TRUE IN f[x] + SumOver(S \ {x}, f)

\* the first loop without the units trapped above another bottom color
CostoDestino_sin_atrapadas(estado, perno_destino, color_destino) ==
    LET pila_destino == estado[perno_destino + 1]
        tuercas_en_destino == contar_color_total(pila_destino, color_destino)
        tuercas_faltantes == MAX_CAP - tuercas_en_destino
    IN (IF tuercas_faltantes > 0 THEN tuercas_faltantes ELSE 0)
       + contar_otros_colores(pila_destino, color_destino)

\* first loop of calcular_lower_bound, for one (perno_destino, color_destino)
CostoDestino(estado, perno_destino, color_destino) ==
    LET pila_destino == estado[perno_destino + 1]
        tuercas_en_destino == contar_color_total(pila_destino, color_destino)
        tuercas_faltantes == MAX_CAP - tuercas_en_destino
    IN (IF tuercas_faltantes > 0 THEN tuercas_faltantes ELSE 0)
       + contar_otros_colores(pila_destino, color_destino)
       + (IF Len(pila_destino) > 0
             /\ obtener_color_base(pila_destino) # color_destino
            THEN tuercas_en_destino ELSE 0)

\* second loop: units of color_destino in stacks that are not its destination
TuercasEnOtrosPernos(estado, asignaciones, color_destino) ==
    LET otros == {i \in 0..(Len(estado) - 1) :
                     i \notin DOMAIN asignaciones \/ asignaciones[i] # color_destino}
    IN SumOver(otros, [i \in otros |-> contar_color_total(estado[i + 1], color_destino)])

\* third loop: color blocks of an unassigned, mixed stack, minus one
Bloques(pila) == 1 + Cardinality({j \in 2..Len(pila) : pila[j] # pila[j - 1]})

CostoSinDestino(estado, asignaciones, i) ==
    IF i \notin DOMAIN asignaciones /\ Len(estado[i + 1]) > 0
         /\ ~bb_pila_es_monocolor(estado[i + 1])
      THEN Bloques(estado[i + 1]) - 1
      ELSE 0

\* calcular_lower_bound without the is_goal shortcut
calcular_lower_bound_sin_meta(estado, asignaciones) ==
    LET D == DOMAIN asignaciones
        I == 0..(Len(estado) - 1)
    IN SumOver(D, [d \in D |-> CostoDestino(estado, d, asignaciones[d])])
       + SumOver(D, [d \in D |-> TuercasEnOtrosPernos(estado, asignaciones, asignaciones[d])])
       + SumOver(I, [i \in I |-> CostoSinDestino(estado, asignaciones, i)])

calcular_lower_bound(estado, asignaciones) ==
    IF bb_is_goal(estado) THEN 0
    ELSE LET D == DOMAIN asignaciones
             I == 0..(Len(estado) - 1)
         IN SumOver(D, [d \in D |-> CostoDestino(estado, d, asignaciones[d])])
            + SumOver(D, [d \in D |-> TuercasEnOtrosPernos(estado, asignaciones, asignaciones[d])])
            + SumOver(I, [i \in I |-> CostoSinDestino(estado, asignaciones, i)])

\* colors that occur in the state (keys of contador_colores)
ColoresDe(estado) == {estado[k][m] : <<k, m>> \in
                         {<<k, m>> \in (1..Len(estado)) \X (1..(MAX_CAP + 1)) : m <= Len(estado[k])}}

ContarEnEstado(estado, color) ==
    LET K == 1..Len(estado)
    IN SumOver(K, [k \in K |-> contar_color_total(estado[k], color)])

EspaciosDisponibles(estado, perno_destino) ==
    LET J == {j \in 0..(Len(estado) - 1) :
                 j # perno_destino /\ ~bb_pila_terminada(estado[j + 1])}
    IN SumOver(J, [j \in J |-> bb_free_slots(estado[j + 1])])

\* es_estado_imposible rejecting a color that has exactly MAX_CAP units
es_estado_imposible_estricto(estado, asignaciones) ==
    \/ \E color \in ColoresDe(estado) : ContarEnEstado(estado, color) >= MAX_CAP
    \/ \E perno_destino \in DOMAIN asignaciones :
          LET pila == estado[perno_destino + 1]
              color_destino == asignaciones[perno_destino]
          IN /\ Len(pila) = MAX_CAP
             /\ obtener_color_base(pila) # color_destino
             /\ EspaciosDisponibles(estado, perno_destino)
                    < contar_otros_colores(pila, color_destino)

\* es_estado_imposible that does not look at the bottom color of a full stack
es_estado_imposible_sin_base(estado, asignaciones) ==
    \/ \E color \in ColoresDe(estado) : ContarEnEstado(estado, color) > MAX_CAP
    \/ \E perno_destino \in DOMAIN asignaciones :
          LET pila == estado[perno_destino + 1]
              color_destino == asignaciones[perno_destino]
          IN /\ Len(pila) = MAX_CAP
             /\ EspaciosDisponibles(estado, perno_destino)
                    < contar_otros_colores(pila, color_destino)

es_estado_imposible(estado, asignaciones) ==
    \/ \E color \in ColoresDe(estado) : ContarEnEstado(estado, color) > MAX_CAP
    \/ \E perno_destino \in DOMAIN asignaciones :
          LET pila == estado[perno_destino + 1]
              color_destino == asignaciones[perno_destino]
          IN /\ Len(pila) = MAX_CAP
             /\ obtener_color_base(pila) # color_destino
             /\ EspaciosDisponibles(estado, perno_destino)
                    < contar_otros_colores(pila, color_destino)

(***************************************************************************)
(* Node, the priority queue (heapq) and the best-cost map                  *)
(***************************************************************************)
\* math.inf, for mejor_costo and stats.mejor_cota_encontrada
inf == -1

\* x >= c for a finite x and a cost c that may be math.inf
GeCosto(x, c) == c # inf /\ x >= c
\* the comparison always succeeding
LtCosto_siempre(x, c) == TRUE

\* x < c likewise
LtCosto(x, c) == c = inf \/ x < c

Node(estado, g, h, path) == [estado |-> estado, g |-> g, h |-> h, path |-> path, f |-> g + h]

\* Node.__lt__ comparing f only
NodeLt_solo_f(a, b) == a.f < b.f

\* Node.__lt__
NodeLt(a, b) == IF a.f # b.f THEN a.f < b.f ELSE a.g < b.g

RECURSIVE SiftDown(_, _, _, _)
\* heapq._siftdown(heap, startpos, pos) with newitem in hand; positions are 0-based
SiftDown(heap, startpos, pos, newitem) ==
    IF pos > startpos
      THEN LET parentpos == (pos - 1) \div 2
               parent == heap[parentpos + 1]
           IN IF NodeLt(newitem, parent)
                THEN SiftDown([heap EXCEPT ![pos + 1] = parent], startpos, parentpos, newitem)
                ELSE [heap EXCEPT ![pos + 1] = newitem]
      ELSE [heap EXCEPT ![pos + 1] = newitem]

RECURSIVE SiftUp(_, _, _, _)
\* heapq._siftup(heap, pos): bubble the smaller child up to a leaf, then sift down
SiftUp(heap, startpos, pos, newitem) ==
    LET endpos == Len(heap)
        childpos == 2 * pos + 1
    IN IF childpos < endpos
         THEN LET rightpos == childpos + 1
                  c == IF rightpos < endpos /\ ~NodeLt(heap[childpos + 1], heap[rightpos + 1])
                         THEN rightpos ELSE childpos
              IN SiftUp([heap EXCEPT ![pos + 1] = heap[c + 1]], startpos, c, newitem)
         ELSE SiftDown([heap EXCEPT ![pos + 1] = newitem], startpos, pos, newitem)

heappush(heap, item) == SiftDown(Append(heap, item), 0, Len(heap), item)

\* heappop: the returned item and the heap left
heappop_item(heap) == heap[1]
heappop_rest(heap) ==
    LET lastelt == heap[Len(heap)]
        rest == SubSeq(heap, 1, Len(heap) - 1)
    IN IF Len(rest) > 0 THEN SiftUp([rest EXCEPT ![1] = lastelt], 0, 0, lastelt) ELSE rest

RECURSIVE JoinComma(_)
JoinComma(xs) ==
    IF Len(xs) = 1 THEN xs[1] ELSE xs[1] \o ", " \o JoinComma(Tail(xs))

\* repr of a Python tuple whose items have the given reprs
ReprTuple(items) ==
    Con(<< >> \o items, LAMBDA xs :
        IF Len(xs) = 0 THEN "()"
        ELSE IF Len(xs) = 1 THEN "(" \o xs[1] \o ",)"
        ELSE "(" \o JoinComma(xs) \o ")")

\* str(s) of a tuple of tuples of one-letter strings
estado_a_string(s) ==
    ReprTuple([k \in 1..Len(s) |->
                  ReprTuple([m \in 1..Len(s[k]) |-> "'" \o s[k][m] \o "'"])])

\* mejor_g_por_estado[key] = g
SetG(m, key, g) == [k \in DOMAIN m \cup {key} |-> IF k = key THEN g ELSE m[k]]

\* the nested loops without the puede_mover test
generar_movimientos_validos_sin_prueba(s) ==
    SelectSeq(AllPairs(Len(s)),
              LAMBDA mv : /\ ~bb_pila_terminada(s[mv[1] + 1])
                          /\ mv[1] # mv[2]
                          /\ ~bb_pila_terminada(s[mv[2] + 1]))

generar_movimientos_validos(s) ==
    SelectSeq(AllPairs(Len(s)),
              LAMBDA mv : /\ ~bb_pila_terminada(s[mv[1] + 1])
                          /\ mv[1] # mv[2]
                          /\ ~bb_pila_terminada(s[mv[2] + 1])
                          /\ bb_puede_mover(s[mv[1] + 1], s[mv[2] + 1]))

(***************************************************************************)
(* Start states                                                            *)
(***************************************************************************)
Mono(c) == [k \in 1..MAX_CAP |-> c]

CountColor(s, c) ==
    Cardinality({<<k, m>> \in (1..Len(s)) \X (1..MAX_CAP) : m <= Len(s[k]) /\ s[k][m] = c})

Imbalance(s, c) ==
    IF CountColor(s, c) >= MAX_CAP THEN CountColor(s, c) - MAX_CAP
    ELSE MAX_CAP - CountColor(s, c)

\* what generar_estado_aleatorio deals for two colors, and the same shape (the one
\* validar_instancia_inicial accepts) with a color up to MaxImbalance units off
Dealt2 ==
    {s \in {<<a, b, << >>>> : a \in [1..MAX_CAP -> TwoColors], b \in [1..MAX_CAP -> TwoColors]} :
        \A c \in TwoColors : Imbalance(s, c) <= MaxImbalance}

\* a full pile of one color, or of one color on top of another
TwoBlockPiles ==
    {[k \in 1..MAX_CAP |-> IF k <= m THEN c ELSE d] :
        m \in 1..MAX_CAP, c \in Colors, d \in Colors}

\* three-color deals whose piles have at most two blocks
Dealt3 ==
    {s \in {<<a, b, c, << >>>> : a \in TwoBlockPiles, b \in TwoBlockPiles, c \in TwoBlockPiles} :
        \A c \in Colors : CountColor(s, c) = MAX_CAP}

\* every stack empty or finished
Solved == LET P == {<< >>} \cup {Mono(c) : c \in TwoColors}
          IN {<<a, b, c>> : a \in P, b \in P, c \in P}

\* a few loose units on three stacks
Sparse ==
    LET P == UNION {[1..n -> TwoColors] : n \in 0..MaxUnits}
    IN {s \in {<<a, b, c>> : a \in P, b \in P, c \in P} :
           Len(s[1]) + Len(s[2]) + Len(s[3]) <= MaxUnits}

\* two colors spread over three of four stacks
Dealt4 ==
    {<<<<a, a, b, b, b>>, <<a, b, b, a>>, <<a>>, << >>>> : <<a, b>> \in {<<"G", "R">>, <<"R", "G">>}}

StartStates == Dealt2 \cup Dealt3 \cup Solved \cup Sparse \cup Dealt4

Budgets == 0..MaxBudget

(***************************************************************************)
(* State                                                                   *)
(***************************************************************************)
VARIABLES
    engine,                \* which solve call this run is
    start,                 \* argument start
    max_expansions,        \* argument max_expansions (0: none)
    pc,                    \* "setup", "run" while the call is active, "done" once it returned
    expanded,              \* stats.expanded
    max_depth,             \* stats.max_depth
    solucion,              \* the returned solution: NoneV or Some(path)
    visited,               \* solve_backtracking: visited
    stack,                 \* solve_backtracking: the active dfs calls, outermost first
    asignaciones,          \* solve_branch_and_bound: asignaciones
    heap,                  \* solve_branch_and_bound: heap
    mejor_g_por_estado,    \* solve_branch_and_bound: mejor_g_por_estado
    mejor_solucion,        \* solve_branch_and_bound: mejor_solucion, NoneV or Some(path)
    mejor_costo,           \* solve_branch_and_bound: mejor_costo
    pruned,                \* stats.pruned
    mejor_cota_encontrada, \* stats.mejor_cota_encontrada
    arg_i,                 \* aplicar_movimiento called on its own: argument i
    arg_j,                 \* argument j
    resultado              \* what that call returned or raised

args == <<engine, start, max_expansions, arg_i, arg_j>>
btvars == <<visited, stack>>
bbvars == <<asignaciones, heap, mejor_g_por_estado, mejor_solucion, mejor_costo,
            pruned, mejor_cota_encontrada>>
vars == <<args, pc, expanded, max_depth, solucion, btvars, bbvars, resultado>>

\* SearchStats() and the locals of the other engine, untouched
StatsInit ==
    /\ expanded = 0
    /\ max_depth = 0
    /\ pruned = 0
    /\ mejor_cota_encontrada = inf
    /\ solucion = NoneV

BtIdle == visited = {} /\ stack = << >>

\* no direct call of aplicar_movimiento in a solve run
PrimIdle == arg_i = 0 /\ arg_j = 0 /\ resultado = Raise("")

BbIdle ==
    /\ asignaciones = << >>
    /\ heap = << >>
    /\ mejor_g_por_estado = << >>
    /\ mejor_solucion = NoneV
    /\ mejor_costo = inf

\* the budget test left out
BudgetHit_nunca(n) == FALSE

\* the budget test off by one: > instead of >=
BudgetHit_tardio(n) == max_expansions # 0 /\ n > max_expansions

BudgetHit(n) == max_expansions # 0 /\ n >= max_expansions

(***************************************************************************)
(* solve_backtracking                                                      *)
(***************************************************************************)
\* one active call dfs(s, path, last_move); moves are the candidates not yet tried
Frame(s, path, last_move) ==
    [s |-> s, path |-> path, last_move |-> last_move, moves |-> << >>, at |-> "enter"]

\* the search starting with an empty visited set
InitBT_sin_inicio ==
    /\ engine = "backtracking"
    /\ start \in StartStates
    /\ max_expansions \in Budgets
    /\ pc = "run"
    /\ StatsInit
    /\ visited = {}
    /\ stack = <<Frame(start, << >>, NoneV)>>
    /\ BbIdle
    /\ PrimIdle

InitBT ==
    /\ engine = "backtracking"
    /\ start \in StartStates
    /\ max_expansions \in Budgets
    /\ pc = "run"
    /\ StatsInit
    /\ visited = {start}
    /\ stack = <<Frame(start, << >>, NoneV)>>
    /\ BbIdle
    /\ PrimIdle

Cur == stack[Len(stack)]
Pop == SubSeq(stack, 1, Len(stack) - 1)

\* dfs returns None to its caller; the outermost return ends solve_backtracking
ReturnNone ==
    /\ stack' = Pop
    /\ pc' = IF Len(stack) = 1 THEN "done" ELSE "run"
    /\ solucion' = NoneV

\* dfs entry, budget reached: return None
DfsCutoff ==
    /\ engine = "backtracking" /\ pc = "run" /\ Cur.at = "enter"
    /\ expanded' = expanded + 1
    /\ max_depth' = Max2(max_depth, Len(Cur.path))
    /\ BudgetHit(expanded + 1)
    /\ ReturnNone
    /\ UNCHANGED <<args, resultado, visited, bbvars>>

\* dfs entry on a goal: return path, which every caller returns at once
DfsGoal ==
    /\ engine = "backtracking" /\ pc = "run" /\ Cur.at = "enter"
    /\ expanded' = expanded + 1
    /\ max_depth' = Max2(max_depth, Len(Cur.path))
    /\ ~BudgetHit(expanded + 1)
    /\ is_goal(Cur.s)
    /\ solucion' = Some(Cur.path)
    /\ stack' = << >>
    /\ pc' = "done"
    /\ UNCHANGED <<args, resultado, visited, bbvars>>

\* dfs entry otherwise: generate the ordered candidate moves
DfsExpand ==
    /\ engine = "backtracking" /\ pc = "run" /\ Cur.at = "enter"
    /\ expanded' = expanded + 1
    /\ max_depth' = Max2(max_depth, Len(Cur.path))
    /\ ~BudgetHit(expanded + 1)
    /\ ~is_goal(Cur.s)
    /\ stack' = [stack EXCEPT ![Len(stack)] =
                    [@ EXCEPT !.moves = generar_movimientos_ordenados(Cur.s),
                              !.at = "loop"]]
    /\ UNCHANGED <<args, resultado, pc, visited, solucion, bbvars>>

\* the for loop skipping a repeat of the last move instead of its reverse
SkipsMove_repetido(s, last_move, mv, vis) ==
    \/ last_move # NoneV /\ mv = last_move[1]
    \/ ~puede_mover(s[mv[1] + 1], s[mv[2] + 1])
    \/ ~aplicar_movimiento(s, mv[1], mv[2]).ok
    \/ aplicar_movimiento(s, mv[1], mv[2]).st \in vis

\* the for loop without the visited test
SkipsMove_sin_visitados(s, last_move, mv, vis) ==
    \/ last_move # NoneV /\ <<mv[2], mv[1]>> = last_move[1]
    \/ ~puede_mover(s[mv[1] + 1], s[mv[2] + 1])
    \/ ~aplicar_movimiento(s, mv[1], mv[2]).ok

\* the for loop with neither the reversal test nor the visited test
SkipsMove_sin_filtros(s, last_move, mv, vis) ==
    \/ ~puede_mover(s[mv[1] + 1], s[mv[2] + 1])
    \/ ~aplicar_movimiento(s, mv[1], mv[2]).ok

\* the `continue`s of the for loop: reversal, re-validation, failed move, visited
SkipsMove(s, last_move, mv, vis) ==
    \/ last_move # NoneV /\ <<mv[2], mv[1]>> = last_move[1]
    \/ ~puede_mover(s[mv[1] + 1], s[mv[2] + 1])
    \/ ~aplicar_movimiento(s, mv[1], mv[2]).ok
    \/ aplicar_movimiento(s, mv[1], mv[2]).st \in vis

\* the next candidate is skipped
DfsSkip ==
    /\ engine = "backtracking" /\ pc = "run" /\ Cur.at = "loop"
    /\ Len(Cur.moves) > 0
    /\ SkipsMove(Cur.s, Cur.last_move, Head(Cur.moves), visited)
    /\ stack' = [stack EXCEPT ![Len(stack)] = [@ EXCEPT !.moves = Tail(@)]]
    /\ UNCHANGED <<args, resultado, pc, visited, expanded, max_depth, solucion, bbvars>>

\* the recursive call without visited.add(new_state)
DfsDescend_sin_marcar ==
    /\ engine = "backtracking" /\ pc = "run" /\ Cur.at = "loop"
    /\ Len(Cur.moves) > 0
    /\ ~SkipsMove(Cur.s, Cur.last_move, Head(Cur.moves), visited)
    /\ LET mv == Head(Cur.moves)
           nuevo_estado == aplicar_movimiento(Cur.s, mv[1], mv[2]).st
       IN stack' = Append([stack EXCEPT ![Len(stack)] = [@ EXCEPT !.moves = Tail(@)]],
                          Frame(nuevo_estado, Append(Cur.path, mv), Some(mv)))
    /\ UNCHANGED <<args, resultado, pc, visited, expanded, max_depth, solucion, bbvars>>

\* the next candidate is taken: mark the new state visited and call dfs on it
DfsDescend ==
    /\ engine = "backtracking" /\ pc = "run" /\ Cur.at = "loop"
    /\ Len(Cur.moves) > 0
    /\ ~SkipsMove(Cur.s, Cur.last_move, Head(Cur.moves), visited)
    /\ LET mv == Head(Cur.moves)
           nuevo_estado == aplicar_movimiento(Cur.s, mv[1], mv[2]).st
       IN /\ visited' = visited \cup {nuevo_estado}
          /\ stack' = Append([stack EXCEPT ![Len(stack)] = [@ EXCEPT !.moves = Tail(@)]],
                             Frame(nuevo_estado, Append(Cur.path, mv), Some(mv)))
    /\ UNCHANGED <<args, resultado, pc, expanded, max_depth, solucion, bbvars>>

\* no candidate left: return None (backtrack)
DfsBacktrack ==
    /\ engine = "backtracking" /\ pc = "run" /\ Cur.at = "loop"
    /\ Len(Cur.moves) = 0
    /\ ReturnNone
    /\ UNCHANGED <<args, resultado, visited, expanded, max_depth, bbvars>>

NextBT ==
    \/ DfsCutoff
    \/ DfsGoal
    \/ DfsExpand
    \/ DfsSkip
    \/ DfsDescend
    \/ DfsBacktrack

SpecBT == InitBT /\ [][NextBT]_vars

(***************************************************************************)
(* solve_branch_and_bound                                                  *)
(***************************************************************************)
InitBB ==
    /\ engine = "branch_and_bound"
    /\ start \in StartStates
    /\ max_expansions \in Budgets
    /\ pc = "setup"
    /\ StatsInit
    /\ BtIdle
    /\ BbIdle
    /\ PrimIdle

\* the start state is impossible: return None, stats
BbReject ==
    /\ engine = "branch_and_bound" /\ pc = "setup"
    /\ \E asig \in {asignar_colores_destino(start)} :
          /\ es_estado_imposible(start, asig)
          /\ asignaciones' = asig
    /\ pc' = "done"
    /\ solucion' = NoneV
    /\ UNCHANGED <<args, resultado, expanded, max_depth, btvars, heap, mejor_g_por_estado,
                   mejor_solucion, mejor_costo, pruned, mejor_cota_encontrada>>

\* otherwise push the initial node and record g = 0 for the start state
BbSetup ==
    /\ engine = "branch_and_bound" /\ pc = "setup"
    /\ \E asig \in {asignar_colores_destino(start)} :
          /\ ~es_estado_imposible(start, asig)
          /\ asignaciones' = asig
          /\ \E h_inicial \in {calcular_lower_bound(start, asig)} :
                heap' = heappush(<< >>, Node(start, 0, h_inicial, << >>))
    /\ mejor_g_por_estado' = SetG(<< >>, estado_a_string(start), 0)
    /\ pc' = "run"
    /\ UNCHANGED <<args, resultado, expanded, max_depth, solucion, btvars,
                   mejor_solucion, mejor_costo, pruned, mejor_cota_encontrada>>

nodo_actual == heappop_item(heap)

\* the loop ends with the queue empty: return mejor_solucion, stats
BbExhausted ==
    /\ engine = "branch_and_bound" /\ pc = "run"
    /\ Len(heap) = 0
    /\ pc' = "done"
    /\ solucion' = mejor_solucion
    /\ UNCHANGED <<args, resultado, expanded, max_depth, btvars, bbvars>>

\* a node is popped with the budget reached: break and return
BbBudget ==
    /\ engine = "branch_and_bound" /\ pc = "run"
    /\ Len(heap) > 0
    /\ BudgetHit(expanded)
    /\ heap' = heappop_rest(heap)
    /\ pc' = "done"
    /\ solucion' = mejor_solucion
    /\ UNCHANGED <<args, resultado, expanded, max_depth, btvars, asignaciones, mejor_g_por_estado,
                   mejor_solucion, mejor_costo, pruned, mejor_cota_encontrada>>

\* the popped node is counted
BbCount ==
    /\ engine = "branch_and_bound" /\ pc = "run"
    /\ Len(heap) > 0
    /\ ~BudgetHit(expanded)
    /\ expanded' = expanded + 1
    /\ max_depth' = Max2(max_depth, Len(nodo_actual.path))

\* the popped node is a goal: keep it if it is cheaper than the best so far
BbGoal ==
    /\ BbCount
    /\ bb_is_goal(nodo_actual.estado)
    /\ heap' = heappop_rest(heap)
    /\ IF LtCosto(nodo_actual.g, mejor_costo)
         THEN /\ mejor_solucion' = Some(nodo_actual.path)
              /\ mejor_costo' = nodo_actual.g
              /\ mejor_cota_encontrada' = nodo_actual.g
         ELSE UNCHANGED <<mejor_solucion, mejor_costo, mejor_cota_encontrada>>
    /\ UNCHANGED <<args, resultado, pc, solucion, btvars, asignaciones, mejor_g_por_estado, pruned>>

\* PODA 2 alone, without the cost bound of PODA 1
PodaNodo_sin_cota(nodo, costo, asig) == es_estado_imposible(nodo.estado, asig)

\* PODA 1 and PODA 2 on the popped node
PodaNodo(nodo, costo, asig) ==
    \/ costo # inf /\ nodo.f >= costo
    \/ es_estado_imposible(nodo.estado, asig)

BbPrune ==
    /\ BbCount
    /\ ~bb_is_goal(nodo_actual.estado)
    /\ PodaNodo(nodo_actual, mejor_costo, asignaciones)
    /\ heap' = heappop_rest(heap)
    /\ pruned' = pruned + 1
    /\ UNCHANGED <<args, resultado, pc, solucion, btvars, asignaciones, mejor_g_por_estado,
                   mejor_solucion, mejor_costo, mejor_cota_encontrada>>

\* PODA 3 and PODA 4 on a child
PodaHijo(nuevo_estado, nuevo_f, costo, asig) ==
    \/ GeCosto(nuevo_f, costo)
    \/ es_estado_imposible(nuevo_estado, asig)

\* PODA 5 dropping a child only for a strictly lower recorded cost
YaVisto_estricto(mg, estado_str, nuevo_g) ==
    estado_str \in DOMAIN mg /\ mg[estado_str] < nuevo_g

\* PODA 5 never dropping a child
YaVisto_nunca(mg, estado_str, nuevo_g) == FALSE

\* PODA 5: the state was already reached with the same or a lower cost
YaVisto(mg, estado_str, nuevo_g) ==
    estado_str \in DOMAIN mg /\ mg[estado_str] <= nuevo_g

\* the loop body counting the children that PODA 5 drops as pruned
Hijo_cuenta_repetidos(nodo, mv, acc, costo, asig) ==
    Con(bb_aplicar_movimiento(nodo.estado, mv[1], mv[2]), LAMBDA r :
      IF ~r.ok THEN acc
      ELSE Con(<<calcular_lower_bound(r.st, asig), estado_a_string(r.st)>>, LAMBDA v :
        LET nuevo_estado == r.st
            nuevo_g == nodo.g + 1
            nuevo_h == v[1]
            nuevo_f == nuevo_g + nuevo_h
            estado_str == v[2]
        IN IF PodaHijo(nuevo_estado, nuevo_f, costo, asig)
             THEN [acc EXCEPT !.pruned = @ + 1]
           ELSE IF YaVisto(acc.mg, estado_str, nuevo_g) THEN [acc EXCEPT !.pruned = @ + 1]
           ELSE Con(Node(nuevo_estado, nuevo_g, nuevo_h, Append(nodo.path, mv)),
                    LAMBDA hijo : [acc EXCEPT !.mg = SetG(@, estado_str, nuevo_g),
                                              !.heap = heappush(@, hijo)])))

\* one pass of the for loop over movimientos; acc holds heap, mejor_g_por_estado, pruned
Hijo(nodo, mv, acc, costo, asig) ==
    Con(bb_aplicar_movimiento(nodo.estado, mv[1], mv[2]), LAMBDA r :
      IF ~r.ok THEN acc
      ELSE Con(<<calcular_lower_bound(r.st, asig), estado_a_string(r.st)>>, LAMBDA v :
        LET nuevo_estado == r.st
            nuevo_g == nodo.g + 1
            nuevo_h == v[1]
            nuevo_f == nuevo_g + nuevo_h
            estado_str == v[2]
        IN IF PodaHijo(nuevo_estado, nuevo_f, costo, asig)
             THEN [acc EXCEPT !.pruned = @ + 1]
           ELSE IF YaVisto(acc.mg, estado_str, nuevo_g) THEN acc
           ELSE Con(Node(nuevo_estado, nuevo_g, nuevo_h, Append(nodo.path, mv)),
                    LAMBDA hijo : [acc EXCEPT !.mg = SetG(@, estado_str, nuevo_g),
                                              !.heap = heappush(@, hijo)])))

RECURSIVE Hijos(_, _, _, _, _)
Hijos(nodo, movimientos, acc, costo, asig) ==
    IF Len(movimientos) = 0 THEN acc
    ELSE Con(Hijo(nodo, Head(movimientos), acc, costo, asig),
             LAMBDA sig : Hijos(nodo, Tail(movimientos), sig, costo, asig))

\* the popped node is expanded: every child is pruned, dropped or pushed
BbExpand ==
    /\ BbCount
    /\ ~bb_is_goal(nodo_actual.estado)
    /\ ~PodaNodo(nodo_actual, mejor_costo, asignaciones)
    /\ \E movimientos \in {generar_movimientos_validos(nodo_actual.estado)},
          antes \in {[heap |-> heappop_rest(heap), mg |-> mejor_g_por_estado,
                      pruned |-> pruned]} :
          \E acc \in {Hijos(nodo_actual, movimientos, antes, mejor_costo, asignaciones)} :
             /\ heap' = acc.heap
             /\ mejor_g_por_estado' = acc.mg
             /\ pruned' = acc.pruned
    /\ UNCHANGED <<args, resultado, pc, solucion, btvars, asignaciones,
                   mejor_solucion, mejor_costo, mejor_cota_encontrada>>

NextBB ==
    \/ BbReject
    \/ BbSetup
    \/ BbExhausted
    \/ BbBudget
    \/ BbGoal
    \/ BbPrune
    \/ BbExpand

SpecBB == InitBB /\ [][NextBB]_vars

(***************************************************************************)
(* aplicar_movimiento called directly (a caller replaying moves)           *)
(***************************************************************************)
Piles == UNION {[1..n -> TwoColors] : n \in 0..MAX_CAP}

\* two stacks of any contents within the capacity
PrimStates == {<<a, b>> : a \in Piles, b \in Piles}

Indices == (0 - MaxIndex)..MaxIndex

InitPrim ==
    /\ engine \in {"aplicar_movimiento", "bb_aplicar_movimiento"}
    /\ start \in PrimStates
    /\ max_expansions = 0
    /\ pc = "call"
    /\ StatsInit
    /\ BtIdle
    /\ BbIdle
    /\ PrimIdle

\* the backtracking copy is called with some (i, j)
AplicarBT ==
    /\ engine = "aplicar_movimiento" /\ pc = "call"
    /\ \E i \in Indices, j \in Indices :
          /\ arg_i' = i
          /\ arg_j' = j
          /\ resultado' = aplicar_movimiento(start, i, j)
    /\ pc' = "done"
    /\ UNCHANGED <<engine, start, max_expansions, expanded, max_depth, solucion,
                   btvars, bbvars>>

\* the branch-and-bound copy is called with some (i, j)
AplicarBB ==
    /\ engine = "bb_aplicar_movimiento" /\ pc = "call"
    /\ \E i \in Indices, j \in Indices :
          /\ arg_i' = i
          /\ arg_j' = j
          /\ resultado' = bb_aplicar_movimiento(start, i, j)
    /\ pc' = "done"
    /\ UNCHANGED <<engine, start, max_expansions, expanded, max_depth, solucion,
                   btvars, bbvars>>

NextPrim == AplicarBT \/ AplicarBB

SpecPrim == InitPrim /\ [][NextPrim]_vars

(***************************************************************************)
(* Properties of aplicar_movimiento                                        *)
(***************************************************************************)
\* a direct call has returned or raised
Llamado == engine \in {"aplicar_movimiento", "bb_aplicar_movimiento"} /\ pc = "done"

EnRango(k) == 0 <= k /\ k < Len(start)

\* number of units of color c in state s
Units(s, c) ==
    Cardinality({<<k, m>> \in (1..Len(s)) \X (1..(MAX_CAP + 1)) :
                    m <= Len(s[k]) /\ s[k][m] = c})

\* the three ways a move from src to dst is illegal
Ilegal(src, dst) ==
    \/ Len(src) = 0
    \/ Len(dst) >= MAX_CAP
    \/ Len(dst) > 0 /\ src[Len(src)] # dst[Len(dst)]

\* C5: whenever puede_mover holds for in-range (i, j), the state aplicar_movimiento
\* returns has the same number of units of every color as the input state.
C5_Conservation ==
    (Llamado /\ EnRango(arg_i) /\ EnRango(arg_j) /\ resultado.ok
       /\ puede_mover(start[arg_i + 1], start[arg_j + 1]))
    => \A c \in Colors : Units(resultado.st, c) = Units(start, c)

C7_SelfMoveIllegal ==
    (Llamado /\ EnRango(arg_i) /\ arg_i = arg_j) => ~resultado.ok

\* C8: if i or j lies outside 0..N-1 (negative values included),
\* aplicar_movimiento signals an error and returns no state.
C8_OutOfRange ==
    (Llamado /\ (~EnRango(arg_i) \/ ~EnRango(arg_j))) => ~resultado.ok

\* a negative index that Python would accept, naming a legal move, was refused
C8_Witness ==
    /\ Llamado
    /\ arg_i = 0 - 1 /\ arg_j = 0
    /\ puede_mover(start[Len(start)], start[1])
    /\ resultado.err = "IndexError"

(***************************************************************************)
(* Either engine                                                           *)
(***************************************************************************)
Init == InitBT \/ InitBB

Next == NextBT \/ NextBB

Spec == Init /\ [][Next]_vars

(***************************************************************************)
(* Properties of the two engines                                           *)
(***************************************************************************)
\* a solve call has returned
Termino(e) == engine = e /\ pc = "done"
Resuelto == engine \in {"backtracking", "branch_and_bound"} /\ pc = "done"

\* the budget was not exhausted: none given, or expanded below it
SinLimite == max_expansions = 0 \/ expanded < max_expansions

Finished(p) == Len(p) = MAX_CAP /\ \A k \in 1..Len(p) : p[k] = p[1]

\* every stack is empty or finished
GoalState(s) == \A k \in 1..Len(s) : Len(s[k]) = 0 \/ Finished(s[k])

\* moving the top of stack a onto stack b (1-based) is a legal move between
\* distinct non-finished stacks
LegalMove(s, a, b) ==
    /\ a # b
    /\ ~Finished(s[a]) /\ ~Finished(s[b])
    /\ Len(s[a]) > 0 /\ Len(s[b]) < MAX_CAP
    /\ Len(s[b]) = 0 \/ s[b][Len(s[b])] = s[a][Len(s[a])]

Moved(s, a, b) ==
    [s EXCEPT ![a] = SubSeq(s[a], 1, Len(s[a]) - 1),
              ![b] = Append(s[b], s[a][Len(s[a])])]

Succs(s) == {Moved(s, a, b) : <<a, b>> \in
                {ab \in (1..Len(s)) \X (1..Len(s)) : LegalMove(s, ab[1], ab[2])}}

RECURSIVE Closure(_, _)
Closure(seen, frontier) ==
    IF frontier = {} THEN seen
    ELSE Closure(seen \cup frontier, (UNION {Succs(x) : x \in frontier}) \ (seen \cup frontier))

\* every state reachable from s by legal moves
Reach(s) == Closure({}, {s})

RECURSIVE Distance(_, _, _)
\* fewest legal moves from the frontier to a goal state; inf if there is none
Distance(seen, frontier, d) ==
    IF frontier = {} THEN inf
    ELSE IF \E x \in frontier : GoalState(x) THEN d
    ELSE Distance(seen \cup frontier,
                  (UNION {Succs(x) : x \in frontier}) \ (seen \cup frontier), d + 1)

MinMoves(s) == Distance({}, {s}, 0)

RECURSIVE Replay(_, _)
\* the moves of path applied in order with aplicar_movimiento
Replay(s, path) ==
    IF Len(path) = 0 THEN Ok(s)
    ELSE LET r == aplicar_movimiento(s, path[1][1], path[1][2])
         IN IF r.ok THEN Replay(r.st, Tail(path)) ELSE r

RECURSIVE ReplayStates(_, _)
\* the states a replay of path goes through, s included
ReplayStates(s, path) ==
    IF Len(path) = 0 THEN <<s>>
    ELSE <<s>> \o ReplayStates(Moved(s, path[1][1] + 1, path[1][2] + 1), Tail(path))

Distinct(seq) == \A a \in 1..Len(seq), b \in 1..Len(seq) : a # b => seq[a] # seq[b]

\* full stacks and an empty last one, MAX_CAP units of every color present
Validated(s) ==
    /\ \A k \in 1..(Len(s) - 1) : Len(s[k]) = MAX_CAP
    /\ Len(s[Len(s)]) = 0
    /\ \A c \in Colors : Units(s, c) \in {0, MAX_CAP}

\* C1: when either engine returns a move list, replaying it from the start state
\* with aplicar_movimiento raises no error and ends in a goal state.
C1_ReplaySound ==
    (Resuelto /\ solucion # NoneV)
    => /\ Replay(start, solucion[1]).ok
       /\ GoalState(Replay(start, solucion[1]).st)

\* branch and bound returned a solution of ten moves or more
C1_Witness ==
    /\ Termino("branch_and_bound")
    /\ solucion # NoneV
    /\ Len(solucion[1]) >= 10

\* C2: on a validated instance, when branch and bound ends with its budget not
\* reached and returns a solution, its length is the fewest legal moves to a goal.
C2_BnBOptimal ==
    (Termino("branch_and_bound") /\ SinLimite /\ solucion # NoneV /\ Validated(start))
    => Len(solucion[1]) = MinMoves(start)

\* C3: when backtracking returns no solution with the budget not exhausted, no goal
\* state is reachable from the start state by legal moves.
C3_BtProvenUnsolvable ==
    (Termino("backtracking") /\ solucion = NoneV /\ SinLimite)
    => \A x \in Reach(start) : ~GoalState(x)

\* backtracking exhausted a balanced instance that has no solution
C3_Witness ==
    /\ Termino("backtracking") /\ solucion = NoneV /\ SinLimite
    /\ Validated(start)
    /\ Cardinality(visited) >= 6

\* C4: from a start state in which no color exceeds MAX_CAP units, when branch and
\* bound returns no solution with the budget not exhausted, no goal state is
\* reachable from the start state by legal moves.
C4_BbProvenUnsolvable ==
    (Termino("branch_and_bound") /\ solucion = NoneV /\ SinLimite
       /\ \A c \in Colors : Units(start, c) <= MAX_CAP)
    => \A x \in Reach(start) : ~GoalState(x)

\* branch and bound emptied its queue on a balanced instance that has no solution
C4_Witness ==
    /\ Termino("branch_and_bound") /\ solucion = NoneV /\ SinLimite
    /\ Validated(start)
    /\ expanded >= 6

\* C9: the states along the current DFS path are pairwise different, and so are
\* the states a replay of the returned path goes through.
C9_NoRevisit ==
    /\ engine = "backtracking" => Distinct([k \in 1..Len(stack) |-> stack[k].s])
    /\ (Termino("backtracking") /\ solucion # NoneV)
         => Distinct(ReplayStates(start, solucion[1]))

\* backtracking returned a path of twelve moves or more
C9_Witness ==
    /\ Termino("backtracking")
    /\ solucion # NoneV
    /\ Len(solucion[1]) >= 12

Reverso(mv) == <<mv[2], mv[1]>>

SinReverso(path) == \A k \in 1..(Len(path) - 1) : path[k + 1] # Reverso(path[k])

\* C10: no move of the current DFS path, and none of the returned path, reverses
\* the move right before it.
C10_AntiReversal ==
    /\ engine = "backtracking" => \A k \in 1..Len(stack) : SinReverso(stack[k].path)
    /\ (Termino("backtracking") /\ solucion # NoneV) => SinReverso(solucion[1])

\* a call whose candidates included the reverse of the move it was entered by
\* has passed that candidate over and descended through another move
C10_Witness ==
    /\ engine = "backtracking"
    /\ \E k \in 1..(Len(stack) - 1) :
          LET fr == stack[k]
              InSeq(x, seq) == \E m \in 1..Len(seq) : seq[m] = x
          IN /\ fr.last_move # NoneV
             /\ InSeq(Reverso(fr.last_move[1]), generar_movimientos_ordenados(fr.s))
             /\ ~InSeq(Reverso(fr.last_move[1]), fr.moves)

(***************************************************************************)
(* Finished stacks                                                         *)
(***************************************************************************)
\* no move of path touches a finished stack, and a stack finished in some state
\* of the replay has the same contents in every later one
FrozenAlong(s, path) ==
    LET sts == ReplayStates(s, path)
    IN /\ \A k \in 1..Len(path) :
             /\ ~Finished(sts[k][path[k][1] + 1])
             /\ ~Finished(sts[k][path[k][2] + 1])
       /\ \A a \in 1..Len(sts), b \in 1..Len(sts), k \in 1..Len(s) :
             (a < b /\ Finished(sts[a][k])) => sts[b][k] = sts[a][k]

\* C11: along every path either engine explores (the active dfs calls, the queued
\* nodes, the best solution so far) or returns, no move has a finished stack as
\* source or destination and a finished stack never changes afterwards.
C11_FinishedFrozen ==
    /\ engine = "backtracking" => \A k \in 1..Len(stack) : FrozenAlong(start, stack[k].path)
    /\ engine = "branch_and_bound" =>
          /\ \A n \in 1..Len(heap) : FrozenAlong(start, heap[n].path)
          /\ mejor_solucion # NoneV => FrozenAlong(start, mejor_solucion[1])
    /\ (Resuelto /\ solucion # NoneV) => FrozenAlong(start, solucion[1])

\* a returned path on which a stack became finished and later moves followed
C11_Witness ==
    /\ Resuelto /\ solucion # NoneV
    /\ LET sts == ReplayStates(start, solucion[1])
       IN \E a \in 2..(Len(sts) - 2), k \in 1..Len(start) :
             Finished(sts[a][k]) /\ ~Finished(sts[a - 1][k])

(***************************************************************************)
(* is_goal called directly                                                 *)
(***************************************************************************)
\* two stacks of any contents, one unit above the capacity included
GoalInputs ==
    LET P == UNION {[1..n -> TwoColors] : n \in 0..(MAX_CAP + 1)}
    IN {<<a, b>> : a \in P, b \in P}

InitGoal ==
    /\ engine \in {"is_goal", "bb_is_goal"}
    /\ start \in GoalInputs
    /\ max_expansions = 0
    /\ pc = "call"
    /\ StatsInit
    /\ BtIdle
    /\ BbIdle
    /\ PrimIdle

\* the backtracking copy returns its verdict on start
IsGoalBT ==
    /\ engine = "is_goal" /\ pc = "call"
    /\ resultado' = Ok(is_goal(start))
    /\ pc' = "done"
    /\ UNCHANGED <<args, expanded, max_depth, solucion, btvars, bbvars>>

\* the branch-and-bound copy returns its verdict on start
IsGoalBB ==
    /\ engine = "bb_is_goal" /\ pc = "call"
    /\ resultado' = Ok(bb_is_goal(start))
    /\ pc' = "done"
    /\ UNCHANGED <<args, expanded, max_depth, solucion, btvars, bbvars>>

NextGoal == IsGoalBT \/ IsGoalBB

SpecGoal == InitGoal /\ [][NextGoal]_vars

\* a direct call of is_goal has returned
GoalLlamado == engine \in {"is_goal", "bb_is_goal"} /\ pc = "done"

\* C12: is_goal(state) is true exactly when every stack is empty or finished; a
\* non-empty monochrome stack below the capacity or a mixed stack makes it false.
C12_GoalCorrect ==
    GoalLlamado =>
       /\ resultado.st = GoalState(start)
       /\ (\E k \in 1..Len(start) :
              \/ Len(start[k]) \in 1..(MAX_CAP - 1) /\ AllEqFirst(start[k])
              \/ ~AllEqFirst(start[k]))
          => resultado.st = FALSE

\* a finished stack next to a monochrome stack one unit short: not a goal
C12_Witness ==
    /\ GoalLlamado
    /\ Finished(start[1])
    /\ Len(start[2]) = MAX_CAP - 1 /\ AllEqFirst(start[2])
    /\ resultado.st = FALSE

(***************************************************************************)
(* Scenarios                                                               *)
(***************************************************************************)
\* C13: from a start state whose stacks are all empty or finished, with any
\* budget or none, each engine returns the empty move sequence with expanded = 1.
C13_AlreadySolved ==
    (Resuelto /\ GoalState(start)) => (solucion = Some(<< >>) /\ expanded = 1)

\* one color of the start state has more than MAX_CAP units and another color
\* present in it has fewer
Desbalanceado(s) ==
    \E c \in Colors, d \in Colors :
        Units(s, c) > MAX_CAP /\ Units(s, d) \in 1..(MAX_CAP - 1)

\* C14: from a start state in which one color exceeds MAX_CAP units and another
\* has fewer than MAX_CAP, both engines return no solution, whatever the budget.
C14_Unbalanced ==
    (Resuelto /\ Desbalanceado(start)) => solucion = NoneV

\* backtracking searched such an instance without a budget and gave up
C14_Witness ==
    /\ Termino("backtracking") /\ Desbalanceado(start)
    /\ max_expansions = 0 /\ expanded >= 6
    /\ solucion = NoneV

\* some color of the start state has more than MAX_CAP units
Excedido(s) == \E c \in Colors : Units(s, c) > MAX_CAP

\* C15: from a start state in which some color exceeds MAX_CAP units, with a budget
\* B >= 1, branch and bound returns no solution with expanded < B and pruned >= 1.
C15_InfeasibleReported ==
    (Termino("branch_and_bound") /\ max_expansions >= 1 /\ Excedido(start))
    => (solucion = NoneV /\ expanded < max_expansions /\ pruned >= 1)

\* a goal state can be reached from s by legal moves, and s is not of the
\* structurally unsolvable kind (no color above MAX_CAP units)
Soluble(s) == ~Excedido(s) /\ \E x \in Reach(s) : GoalState(x)

\* C16: from a solvable start state that is not a goal, an engine called with
\* max_expansions = 1 returns no solution with expanded >= max_expansions, the
\* test by which the callers flag the result as budget-exhausted.
C16_BudgetTooSmall ==
    (Resuelto /\ max_expansions = 1 /\ ~GoalState(start) /\ Soluble(start))
    => (solucion = NoneV /\ expanded >= max_expansions)

\* branch and bound was cut off on such an instance with nodes still queued
C16_Witness ==
    /\ Termino("branch_and_bound") /\ max_expansions = 1
    /\ ~GoalState(start) /\ Soluble(start)
    /\ solucion = NoneV /\ expanded = 1 /\ Len(heap) > 0

(***************************************************************************)
(* Budget                                                                  *)
(***************************************************************************)
\* C17: with a budget B >= 1, backtracking enters no state once expanded has
\* reached B: expanded <= B at every moment of the run and at return.
C17_BtBudgetHalt ==
    (engine = "backtracking" /\ max_expansions >= 1) => expanded <= max_expansions

\* C18: with a budget B >= 1, branch and bound never counts more than B
\* expansions, and a node popped once the counter has reached B ends the loop: it
\* is not counted, goal-checked, recorded as a solution nor expanded.
C18_BbBudget ==
    [][(engine = "branch_and_bound" /\ max_expansions >= 1)
         => /\ expanded' <= max_expansions
            /\ (pc = "run" /\ Len(heap) > 0 /\ expanded >= max_expansions)
                 => /\ pc' = "done"
                    /\ expanded' = expanded
                    /\ mejor_solucion' = mejor_solucion
                    /\ mejor_costo' = mejor_costo
                    /\ mejor_g_por_estado' = mejor_g_por_estado
                    /\ Len(heap') < Len(heap)
                    /\ solucion' = mejor_solucion]_vars

\* the loop was cut off at the second expansion with nodes still queued
C18_Witness ==
    /\ Termino("branch_and_bound") /\ max_expansions = 2
    /\ expanded = 2 /\ Len(heap) > 0

\* C19: when branch and bound with a budget B returns no solution because its
\* queue became empty, expanded < B.
C19_ExhaustedBelowBudget ==
    [][(engine = "branch_and_bound" /\ max_expansions >= 1
          /\ pc = "run" /\ Len(heap) = 0 /\ pc' = "done" /\ solucion' = NoneV)
         => expanded' < max_expansions]_vars

(***************************************************************************)
(* Moves handed to aplicar_movimiento by the engines                       *)
(***************************************************************************)
\* C20: every move an engine is about to pass to aplicar_movimiento is a legal
\* move between distinct non-finished stacks and aplicar_movimiento returns a state
\* for it, so no move error arises inside a solve call.
C20_NoMoveErrors ==
    /\ (engine = "backtracking" /\ pc = "run" /\ Cur.at = "loop")
         => \A k \in 1..Len(Cur.moves) :
               /\ LegalMove(Cur.s, Cur.moves[k][1] + 1, Cur.moves[k][2] + 1)
               /\ aplicar_movimiento(Cur.s, Cur.moves[k][1], Cur.moves[k][2]).ok
    /\ (engine = "branch_and_bound" /\ pc = "run" /\ Len(heap) > 0)
         => LET movimientos == generar_movimientos_validos(nodo_actual.estado)
            IN \A k \in 1..Len(movimientos) :
                  /\ LegalMove(nodo_actual.estado, movimientos[k][1] + 1, movimientos[k][2] + 1)
                  /\ bb_aplicar_movimiento(nodo_actual.estado,
                                           movimientos[k][1], movimientos[k][2]).ok

\* branch and bound is about to expand a node that has four moves or more
C20_Witness ==
    /\ engine = "branch_and_bound" /\ pc = "run" /\ Len(heap) > 0
    /\ ~BudgetHit(expanded)
    /\ ~bb_is_goal(nodo_actual.estado)
    /\ ~PodaNodo(nodo_actual, mejor_costo, asignaciones)
    /\ Len(generar_movimientos_validos(nodo_actual.estado)) >= 4

(***************************************************************************)
(* calcular_lower_bound called directly                                    *)
(***************************************************************************)
\* every map from some of the stack indices of s to colors
Asignaciones(s) ==
    UNION {[D -> TwoColors] : D \in SUBSET (0..(Len(s) - 1))}

InitLB ==
    /\ engine = "calcular_lower_bound"
    /\ start \in PrimStates
    /\ asignaciones \in Asignaciones(start)
    /\ max_expansions = 0
    /\ pc = "call"
    /\ StatsInit
    /\ BtIdle
    /\ heap = << >>
    /\ mejor_g_por_estado = << >>
    /\ mejor_solucion = NoneV
    /\ mejor_costo = inf
    /\ PrimIdle

\* calcular_lower_bound(start, asignaciones) returns
CalcularLB ==
    /\ engine = "calcular_lower_bound" /\ pc = "call"
    /\ resultado' = Ok(calcular_lower_bound(start, asignaciones))
    /\ pc' = "done"
    /\ UNCHANGED <<args, expanded, max_depth, solucion, btvars, bbvars>>

NextLB == CalcularLB

SpecLB == InitLB /\ [][NextLB]_vars

\* C21: for a goal state and any assignment of colors to stacks, derived from the
\* state or not, calcular_lower_bound returns 0.
C21_LowerBoundGoal ==
    (engine = "calcular_lower_bound" /\ pc = "done" /\ GoalState(start))
    => resultado.st = 0

\* a goal state with a finished stack assigned to the other color got 0
C21_Witness ==
    /\ engine = "calcular_lower_bound" /\ pc = "done"
    /\ GoalState(start)
    /\ \E d \in DOMAIN asignaciones :
          Len(start[d + 1]) = MAX_CAP /\ asignaciones[d] # start[d + 1][1]
    /\ resultado.st = 0

(***************************************************************************)
(* Termination                                                             *)
(***************************************************************************)
\* the interpreter keeps running the call: a step that can be taken is taken
SpecBTFair == SpecBT /\ WF_vars(NextBT)

\* C22: without a budget, every dfs entry is for a state newly added to
\* visited, the states visited are states reachable from the start state, and
\* solve_backtracking eventually returns.
C22_BtTerminates ==
    /\ []((engine = "backtracking" /\ max_expansions = 0)
            => expanded <= Cardinality(visited))
    /\ []((Termino("backtracking") /\ max_expansions = 0)
            => visited \subseteq Reach(start))
    /\ ((engine = "backtracking" /\ max_expansions = 0) ~> (pc = "done"))

\* a search without a budget returned after entering twenty states or more
C22_Witness ==
    /\ Termino("backtracking") /\ max_expansions = 0
    /\ expanded >= 20

\* the interpreter keeps running the call: a step that can be taken is taken
SpecBBFair == SpecBB /\ WF_vars(NextBB)

\* nodes in the queue after the step that were not in it before
Pushed == {heap'[k] : k \in 1..Len(heap')} \ {heap[k] : k \in 1..Len(heap)}

\* C23: a node is pushed only when its state is new to mejor_g_por_estado or
\* its g is strictly below the g recorded for it, and solve_branch_and_bound
\* called without a budget eventually returns with its queue empty.
C23_BbTerminates ==
    /\ ((engine = "branch_and_bound" /\ max_expansions = 0)
            ~> (pc = "done" /\ heap = << >>))
    /\ [][\A n \in Pushed :
             \/ estado_a_string(n.estado) \notin DOMAIN mejor_g_por_estado
             \/ n.g < mejor_g_por_estado[estado_a_string(n.estado)]]_vars

\* a search without a budget returned with its queue empty after popping ten
\* nodes or more, one of them reached a second time at a lower cost
C23_Witness ==
    /\ Termino("branch_and_bound") /\ max_expansions = 0
    /\ heap = << >>
    /\ expanded >= 10
    /\ expanded > Cardinality(DOMAIN mejor_g_por_estado)

(***************************************************************************)
(* The queue and the best solution                                         *)
(***************************************************************************)
\* C24: the node the next heappop returns has the smallest f among the queued
\* nodes and, among those with that f, the smallest g.
C24_PopOrder ==
    (engine = "branch_and_bound" /\ pc = "run" /\ Len(heap) > 0)
        => \A k \in 1..Len(heap) :
              /\ nodo_actual.f <= heap[k].f
              /\ heap[k].f = nodo_actual.f => nodo_actual.g <= heap[k].g

\* a pop is about to choose between nodes of equal f and different g, after
\* earlier pops and pushes have reshaped the queue
C24_Witness ==
    /\ engine = "branch_and_bound" /\ pc = "run" /\ expanded >= 3
    /\ Len(heap) >= 3
    /\ \E k \in 2..Len(heap) : heap[k].f = nodo_actual.f /\ heap[k].g > nodo_actual.g
    /\ \E k \in 2..Len(heap) : heap[k].f > nodo_actual.f

\* a counted pop of a goal node is the step about to be taken
PopMeta ==
    /\ engine = "branch_and_bound" /\ pc = "run" /\ Len(heap) > 0
    /\ ~BudgetHit(expanded)
    /\ bb_is_goal(nodo_actual.estado)

\* C25: a popped goal node is never expanded; it replaces the best solution
\* exactly when its g is strictly below the best cost; the best cost changes
\* at no other step, so it strictly decreases at every update and is the
\* smallest g of the goal nodes popped and counted, whose path is returned.
C25_GoalHandling ==
    [][/\ PopMeta =>
            /\ Pushed = {}
            /\ mejor_g_por_estado' = mejor_g_por_estado /\ pruned' = pruned
            /\ IF mejor_costo = inf \/ nodo_actual.g < mejor_costo
                 THEN mejor_solucion' = Some(nodo_actual.path)
                        /\ mejor_costo' = nodo_actual.g
                 ELSE mejor_solucion' = mejor_solucion /\ mejor_costo' = mejor_costo
       /\ ~PopMeta => (mejor_solucion' = mejor_solucion /\ mejor_costo' = mejor_costo)
       /\ mejor_costo' # mejor_costo =>
            /\ mejor_costo' # inf
            /\ mejor_costo = inf \/ mejor_costo' < mejor_costo
       /\ mejor_solucion' # NoneV => Len(mejor_solucion'[1]) = mejor_costo'
       /\ (engine = "branch_and_bound" /\ pc = "run" /\ pc' = "done")
            => solucion' = mejor_solucion]_vars

\* a second goal node is popped and counted while a best solution of no
\* greater cost is recorded: it is dropped without being expanded
C25_Witness ==
    /\ PopMeta
    /\ mejor_costo # inf /\ nodo_actual.g >= mejor_costo
    /\ mejor_solucion # NoneV

\* the key of a node's state in mejor_g_por_estado
Clave(n) == estado_a_string(n.estado)

\* C26: a node is pushed only when mejor_g_por_estado has no entry for its
\* state or an entry strictly greater than its g, and the entry is then its g;
\* no entry ever disappears or grows, entries change only with a push, and
\* every queued node has g at least the entry of its state.
C26_BestCostMap ==
    /\ [](engine = "branch_and_bound" =>
            \A k \in 1..Len(heap) :
                /\ Clave(heap[k]) \in DOMAIN mejor_g_por_estado
                /\ heap[k].g >= mejor_g_por_estado[Clave(heap[k])])
    /\ [][/\ \A n \in Pushed :
                /\ \/ Clave(n) \notin DOMAIN mejor_g_por_estado
                   \/ mejor_g_por_estado[Clave(n)] > n.g
                /\ mejor_g_por_estado'[Clave(n)] = n.g
          /\ \A e \in DOMAIN mejor_g_por_estado :
                /\ e \in DOMAIN mejor_g_por_estado'
                /\ mejor_g_por_estado'[e] <= mejor_g_por_estado[e]
          /\ \A e \in DOMAIN mejor_g_por_estado' :
                (e \notin DOMAIN mejor_g_por_estado
                    \/ mejor_g_por_estado'[e] # mejor_g_por_estado[e])
                  => \E n \in Pushed : Clave(n) = e]_vars

\* a queued node has been overtaken: its state is recorded with a lower g
C26_Witness ==
    /\ engine = "branch_and_bound" /\ pc = "run"
    /\ \E k \in 1..Len(heap) : heap[k].g > mejor_g_por_estado[Clave(heap[k])]

\* a counted pop of a node that is not a goal is the step about to be taken
PopNoMeta ==
    /\ engine = "branch_and_bound" /\ pc = "run" /\ Len(heap) > 0
    /\ ~BudgetHit(expanded)
    /\ ~bb_is_goal(nodo_actual.estado)

\* the states one valid move away from the popped node's state
HijosDe(n) ==
    {bb_aplicar_movimiento(n.estado, mv[1], mv[2]).st :
        mv \in {m \in (0..(Len(n.estado) - 1)) \X (0..(Len(n.estado) - 1)) :
                   /\ m[1] # m[2]
                   /\ ~bb_pila_terminada(n.estado[m[1] + 1])
                   /\ ~bb_pila_terminada(n.estado[m[2] + 1])
                   /\ bb_puede_mover(n.estado[m[1] + 1], n.estado[m[2] + 1])}}

\* children of n that the cost bound c or the infeasibility rule discards
Descartados(n, c) ==
    {e \in HijosDe(n) :
        \/ c # inf /\ n.g + 1 + calcular_lower_bound(e, asignaciones) >= c
        \/ es_estado_imposible(e, asignaciones)}

\* C27: with a best solution of cost c recorded, a popped node that is not a
\* goal and has f >= c gets no child pushed and adds one to pruned, and no
\* node with f >= c is ever pushed; an infeasible popped node likewise adds
\* one; an expanded node adds one per child discarded by the cost bound or
\* by infeasibility and nothing for children the best-cost map drops.
C27_CostBoundPruning ==
    [][/\ \A n \in Pushed : mejor_costo = inf \/ n.f < mejor_costo
       /\ PopNoMeta =>
            IF \/ mejor_costo # inf /\ nodo_actual.f >= mejor_costo
               \/ es_estado_imposible(nodo_actual.estado, asignaciones)
              THEN Pushed = {} /\ pruned' = pruned + 1
                     /\ mejor_g_por_estado' = mejor_g_por_estado
              ELSE /\ pruned' = pruned + Cardinality(Descartados(nodo_actual, mejor_costo))
                   /\ \A n \in Pushed : n.estado \in HijosDe(nodo_actual)
                                           \ Descartados(nodo_actual, mejor_costo)
       /\ ~PopNoMeta => pruned' = pruned]_vars

\* with a best solution recorded, a node that has children to offer and an f
\* not below the best cost is popped after earlier prunes
C27_Witness ==
    /\ PopNoMeta
    /\ mejor_costo # inf /\ nodo_actual.f >= mejor_costo
    /\ pruned > 0
    /\ Cardinality(HijosDe(nodo_actual)) >= 2

(***************************************************************************)
(* Direct calls of the heuristics of backtracking/core.py                  *)
(***************************************************************************)
\* full piles of two colors with at most two blocks
FullPiles == {p \in TwoBlockPiles : \A k \in 1..MAX_CAP : p[k] \in TwoColors}

\* loose piles of up to MaxUnits units, and full piles
HeurPiles == (UNION {[1..n -> TwoColors] : n \in 0..MaxUnits}) \cup FullPiles

\* three stacks, alone or followed by an empty fourth
HeurStates ==
    {<<a, b, c>> : a \in HeurPiles, b \in HeurPiles, c \in HeurPiles}
        \cup {<<a, b, c, << >>>> : a \in HeurPiles, b \in HeurPiles, c \in HeurPiles}

\* the pairs (i, j), i # j, that puede_mover accepts between unfinished stacks
Legales(s) ==
    {mv \in (0..(Len(s) - 1)) \X (0..(Len(s) - 1)) :
        /\ mv[1] # mv[2]
        /\ ~pila_terminada(s[mv[1] + 1]) /\ ~pila_terminada(s[mv[2] + 1])
        /\ puede_mover(s[mv[1] + 1], s[mv[2] + 1])}

InitH ==
    /\ engine \in {"generar_movimientos_ordenados", "elegir_color_foco", "priority_tuple"}
    /\ start \in HeurStates
    /\ IF engine = "priority_tuple"
         THEN \E mv \in Legales(start) : arg_i = mv[1] /\ arg_j = mv[2]
         ELSE arg_i = 0 /\ arg_j = 0
    /\ resultado = Raise("")
    /\ max_expansions = 0
    /\ pc = "call"
    /\ StatsInit
    /\ BtIdle
    /\ BbIdle

LlamarOrdenados ==
    /\ engine = "generar_movimientos_ordenados" /\ pc = "call"
    /\ resultado' = Ok(generar_movimientos_ordenados(start))
    /\ pc' = "done"
    /\ UNCHANGED <<args, expanded, max_depth, solucion, btvars, bbvars>>

LlamarFoco ==
    /\ engine = "elegir_color_foco" /\ pc = "call"
    /\ resultado' = Ok(elegir_color_foco(start))
    /\ pc' = "done"
    /\ UNCHANGED <<args, expanded, max_depth, solucion, btvars, bbvars>>

LlamarPrioridad ==
    /\ engine = "priority_tuple" /\ pc = "call"
    /\ resultado' = Ok(priority_tuple(start, arg_i, arg_j))
    /\ pc' = "done"
    /\ UNCHANGED <<args, expanded, max_depth, solucion, btvars, bbvars>>

NextH == LlamarOrdenados \/ LlamarFoco \/ LlamarPrioridad

SpecH == InitH /\ [][NextH]_vars

\* the source stack of the move shows the focus color of s
DeFoco(s, mv) == Len(s[mv[1] + 1]) > 0 /\ top(s[mv[1] + 1]) = elegir_color_foco(s)

\* C28: generar_movimientos_ordenados returns every legal pair once and
\* nothing else, the moves whose source top is the focus color first, and
\* each of the two groups in non-decreasing order of priority_tuple.
C28_CandidateMoves ==
    (engine = "generar_movimientos_ordenados" /\ pc = "done") =>
        LET r == resultado.st
        IN /\ {r[k] : k \in 1..Len(r)} = Legales(start)
           /\ Len(r) = Cardinality(Legales(start))
           /\ \A a \in 1..Len(r) : \A b \in (a + 1)..Len(r) :
                 /\ DeFoco(start, r[b]) => DeFoco(start, r[a])
                 /\ (DeFoco(start, r[a]) <=> DeFoco(start, r[b]))
                      => ~TupleLess(priority_tuple(start, r[b][1], r[b][2]),
                                    priority_tuple(start, r[a][1], r[a][2]))

\* a focus move was put ahead of a move the loops produced earlier, and inside
\* a group sorting reordered the loops' output
C28_Witness ==
    /\ engine = "generar_movimientos_ordenados" /\ pc = "done"
    /\ \E a \in 1..Len(resultado.st) : \E b \in (a + 1)..Len(resultado.st) :
          /\ DeFoco(start, resultado.st[a]) /\ ~DeFoco(start, resultado.st[b])
          /\ resultado.st[b][1] < resultado.st[a][1]
    /\ \E a \in 1..Len(resultado.st) : \E b \in (a + 1)..Len(resultado.st) :
          /\ DeFoco(start, resultado.st[a]) <=> DeFoco(start, resultado.st[b])
          /\ \/ resultado.st[b][1] < resultado.st[a][1]
             \/ resultado.st[b][1] = resultado.st[a][1]
                  /\ resultado.st[b][2] < resultado.st[a][2]

\* the colors on top of the stacks of s
Topes(s) == {top(s[k]) : k \in {m \in 1..Len(s) : Len(s[m]) > 0}}

\* the longest top run of c over the stacks whose top is c
RachaDe(s, c) ==
    LET R == {run_len_superior(s[k]) : k \in {m \in 1..Len(s) : Len(s[m]) > 0 /\ top(s[m]) = c}}
    IN CHOOSE r \in R : \A q \in R : q <= r

\* (frequency, run) of a is lexicographically at most that of b
ParMenorIgual(s, a, b) ==
    \/ freq_topes(s, a) < freq_topes(s, b)
    \/ freq_topes(s, a) = freq_topes(s, b) /\ RachaDe(s, a) <= RachaDe(s, b)

Maximos(s) == {c \in Topes(s) : \A d \in Topes(s) : ParMenorIgual(s, d, c)}

\* place of the first unit of color c, scanning the stacks in index order and
\* each stack from bottom to top
PrimeraAparicion(s, c) ==
    LET P == {k * (MAX_CAP + 1) + m : <<k, m>> \in
                 {x \in (1..Len(s)) \X (1..MAX_CAP) : x[2] <= Len(s[x[1]]) /\ s[x[1]][x[2]] = c}}
    IN CHOOSE p \in P : \A q \in P : p <= q

\* C30: when several colors share the maximal pair, elegir_color_foco
\* returns the one whose first unit comes earliest in the state.
C30_TieBreak ==
    (engine = "elegir_color_foco" /\ pc = "done" /\ Cardinality(Maximos(start)) > 1) =>
        \A c \in Maximos(start) :
            PrimeraAparicion(start, resultado.st) <= PrimeraAparicion(start, c)

AsigStates == {<<a, b, c>> : a \in Piles, b \in Piles, c \in HeurPiles}

InitBH ==
    /\ engine \in {"asignar_colores_destino", "es_estado_imposible"}
    /\ IF engine = "asignar_colores_destino"
         THEN start \in AsigStates /\ asignaciones = << >>
         ELSE start \in PrimStates /\ asignaciones \in Asignaciones(start)
    /\ max_expansions = 0
    /\ pc = "call"
    /\ StatsInit
    /\ BtIdle
    /\ heap = << >>
    /\ mejor_g_por_estado = << >>
    /\ mejor_solucion = NoneV
    /\ mejor_costo = inf
    /\ PrimIdle

\* asignar_colores_destino(start) returns
LlamarAsignar ==
    /\ engine = "asignar_colores_destino" /\ pc = "call"
    /\ resultado' = Ok(asignar_colores_destino(start))
    /\ pc' = "done"
    /\ UNCHANGED <<args, expanded, max_depth, solucion, btvars, bbvars>>

\* es_estado_imposible(start, asignaciones) returns
LlamarImposible ==
    /\ engine = "es_estado_imposible" /\ pc = "call"
    /\ resultado' = Ok(es_estado_imposible(start, asignaciones))
    /\ pc' = "done"
    /\ UNCHANGED <<args, expanded, max_depth, solucion, btvars, bbvars>>

NextBH == LlamarAsignar \/ LlamarImposible

SpecBH == InitBH /\ [][NextBH]_vars

\* units of color c in pile p
Cuenta(p, c) == Cardinality({k \in 1..Len(p) : p[k] = c})

\* length of the longest block of consecutive units of color c in pile p
RachaLarga(p, c) ==
    LET largos == {n \in 0..Len(p) :
                      \E k \in 1..(Len(p) - n + 1) : \A m \in k..(k + n - 1) : p[m] = c}
    IN CHOOSE n \in largos : \A m \in largos : m <= n

Marca(p, c) == 3 * Cuenta(p, c) + 2 * RachaLarga(p, c) - (Len(p) - Cuenta(p, c))

\* the stacks (0-based) of s whose bottom unit has color c
ConBase(s, c) == {k \in 0..(Len(s) - 1) : Len(s[k + 1]) > 0 /\ s[k + 1][1] = c}

\* C32: in the returned map every color at the bottom of some stack is assigned
\* to exactly one stack, an assigned stack is non-empty and gets its bottom color,
\* and the stack chosen for a color is the lowest-index one, among the stacks with
\* that bottom color, of maximal 3 * count + 2 * longest run - count of others.
C32_DestinationAssignment ==
    (engine = "asignar_colores_destino" /\ pc = "done") =>
        LET r == resultado.st
        IN /\ DOMAIN r \subseteq 0..(Len(start) - 1)
           /\ \A c \in Colors :
                 ConBase(start, c) # {} => Cardinality({d \in DOMAIN r : r[d] = c}) = 1
           /\ \A d \in DOMAIN r :
                 /\ Len(start[d + 1]) > 0
                 /\ r[d] = start[d + 1][1]
                 /\ \A k \in ConBase(start, r[d]) :
                       /\ Marca(start[k + 1], r[d]) <= Marca(start[d + 1], r[d])
                       /\ k < d => Marca(start[k + 1], r[d]) < Marca(start[d + 1], r[d])

\* of two stacks with the same bottom color the later one is chosen, though it
\* holds no more units of the color, and another color is assigned as well
C32_Witness ==
    /\ engine = "asignar_colores_destino" /\ pc = "done"
    /\ Cardinality(DOMAIN resultado.st) = 2
    /\ \E d \in DOMAIN resultado.st : \E k \in ConBase(start, resultado.st[d]) :
          /\ k < d
          /\ Cuenta(start[k + 1], resultado.st[d]) >= Cuenta(start[d + 1], resultado.st[d])
          /\ Len(start[k + 1]) <= Len(start[d + 1])

(***************************************************************************)
(* The value of the lower bound                                            *)
(***************************************************************************)
\* no color is assigned to two stacks
UnaPorColor(asig) == \A a \in DOMAIN asig, b \in DOMAIN asig : asig[a] = asig[b] => a = b

\* maximal blocks of consecutive units of one color in pile p
Rachas(p) == Cardinality({j \in 1..Len(p) : j = 1 \/ p[j] # p[j - 1]})

\* the three parts of the estimate for state s under the assignment asig
ParteDestinos(s, asig) ==
    LET D == DOMAIN asig
    IN SumOver(D, [d \in D |->
          LET p == s[d + 1]
              c == asig[d]
          IN (MAX_CAP - Cuenta(p, c)) + (Len(p) - Cuenta(p, c))
               + (IF Len(p) > 0 /\ p[1] # c THEN Cuenta(p, c) ELSE 0)])

ParteFuera(s, asig) ==
    LET D == DOMAIN asig
    IN SumOver(D, [d \in D |->
          LET K == (0..(Len(s) - 1)) \ {d}
          IN SumOver(K, [k \in K |-> Cuenta(s[k + 1], asig[d])])])

ParteSinDestino(s, asig) ==
    LET U == {k \in 0..(Len(s) - 1) :
                 k \notin DOMAIN asig /\ Len(s[k + 1]) > 0 /\ Rachas(s[k + 1]) > 1}
    IN SumOver(U, [k \in U |-> Rachas(s[k + 1]) - 1])

TotalDe(s, c) ==
    Cardinality({km \in (1..Len(s)) \X (1..MAX_CAP) : km[2] <= Len(s[km[1]]) /\ s[km[1]][km[2]] = c})

\* some color has more than MAX_CAP units
ReglaExceso(s) == \E c \in Colors : TotalDe(s, c) > MAX_CAP

\* free slots of the non-finished stacks other than d (0-based)
LibresFuera(s, d) ==
    LET J == {k \in 0..(Len(s) - 1) : k # d /\ ~Finished(s[k + 1])}
    IN SumOver(J, [k \in J |-> MAX_CAP - Len(s[k + 1])])

\* some assigned stack is full above another bottom color and the other stacks
\* cannot take its foreign units
ReglaBloqueo(s, asig) ==
    \E d \in DOMAIN asig :
        /\ Len(s[d + 1]) = MAX_CAP
        /\ s[d + 1][1] # asig[d]
        /\ LibresFuera(s, d) < Len(s[d + 1]) - Cuenta(s[d + 1], asig[d])

EntraEnMeta ==
    /\ engine = "backtracking" /\ pc = "run"
    /\ Cur.at = "enter" /\ is_goal(Cur.s)

\* C35: with any budget, once dfs has been called on a state that satisfies
\* is_goal, solve_backtracking returns a solution, not None.
C35_GoalReported ==
    [](EntraEnMeta => [](Termino("backtracking") => solucion # NoneV))

(***************************************************************************)
(* The two engines on the same start state                                 *)
(***************************************************************************)
\* every color present has exactly MAX_CAP units
Balanceado(s) == \A c \in Colors : Units(s, c) \in {0, MAX_CAP}

\* C36: on a start state where every color present has exactly MAX_CAP units,
\* without a budget, backtracking returns a solution if and only if branch and
\* bound does: each of the two returns one exactly when a goal state can be
\* reached from the start state by legal moves.
C36_EnginesAgree ==
    (Resuelto /\ max_expansions = 0 /\ Balanceado(start))
    => (solucion # NoneV <=> \E x \in Reach(start) : GoalState(x))

\* branch and bound solved a balanced start that is not a goal, after backing out
\* of states that backtracking also has to leave
C36_Witness ==
    /\ Termino("branch_and_bound") /\ max_expansions = 0
    /\ Balanceado(start) /\ ~GoalState(start)
    /\ solucion # NoneV
    /\ Len(start) = 4 /\ Len(solucion[1]) >= 8

(***************************************************************************)
(* Infeasibility on instances of N colors in N + 1 stacks                  *)
(***************************************************************************)
ColoresPresentes(s) == {c \in Colors : Units(s, c) > 0}

\* N colors of exactly MAX_CAP units each, in N + 1 stacks
NMasUno(s) == Balanceado(s) /\ Len(s) = Cardinality(ColoresPresentes(s)) + 1

\* children of n that the cost bound c discards
CortadosPorCosto(n, c) ==
    {e \in HijosDe(n) : c # inf /\ n.g + 1 + calcular_lower_bound(e, asignaciones) >= c}

\* C37: from a start state of N colors with MAX_CAP units each in N + 1 stacks,
\* with the assignment computed from it, es_estado_imposible is false for the
\* start state and for every state reachable from it by legal moves, and
\* pruned grows only by cost-bound prunes: by one for a popped node with f not
\* below the best cost, by one per child that the best cost discards.
C37_InfeasibilityInert ==
    [][(engine = "branch_and_bound" /\ NMasUno(start)) =>
         /\ pc = "setup" =>
              /\ pc' = "run"
              /\ \A x \in Reach(start) : ~es_estado_imposible(x, asignaciones')
         /\ pruned' # pruned =>
              /\ mejor_costo # inf
              /\ IF nodo_actual.f >= mejor_costo
                   THEN pruned' = pruned + 1
                   ELSE pruned' = pruned + Cardinality(CortadosPorCosto(nodo_actual, mejor_costo))]_vars

\* a popped node is pruned by the best cost on such an instance, after the
\* search went through more than twenty nodes
C37_Witness ==
    /\ engine = "branch_and_bound" /\ NMasUno(start) /\ ~GoalState(start)
    /\ pruned > 0 /\ expanded > 20
    /\ mejor_costo # inf

(***************************************************************************)
(* The visited set of the depth-first search                               *)
(***************************************************************************)
\* the states of the active dfs calls, outermost first
EnCamino == {stack[k].s : k \in 1..Len(stack)}

\* C38: in a backtracking run the visited set only grows, every state on the
\* current DFS path is in it, dfs is only called on a state that was not in it,
\* and expanded never exceeds its size.
C38_VisitedOnce ==
    [][engine = "backtracking" =>
         /\ visited \subseteq visited'
         /\ {stack'[k].s : k \in 1..Len(stack')} \subseteq visited'
         /\ Len(stack') > Len(stack) => stack'[Len(stack')].s \notin visited
         /\ expanded' <= Cardinality(visited')]_vars

\* a run with a budget that went on after the cut-off, deep in the search
C38_Witness ==
    /\ engine = "backtracking" /\ pc = "run"
    /\ Len(stack) >= 3 /\ EnCamino \subseteq visited
    /\ expanded = Cardinality(visited) /\ expanded >= 4

(***************************************************************************)
(* Superseded nodes                                                        *)
(***************************************************************************)
\* the popped node is counted and goes through the child loop
SeExpande ==
    /\ PopNoMeta
    /\ ~PodaNodo(nodo_actual, mejor_costo, asignaciones)

\* C39: a popped node that is counted and has its children generated carries the
\* best g recorded for its state in the best-cost map.
C39_NoStaleExpansion ==
    SeExpande => nodo_actual.g = mejor_g_por_estado[Clave(nodo_actual)]

====
